---- MODULE Spec2Model ----
(***************************************************************************)
(* Model of the jotform-webhook handlers: the payload normalizers          *)
(* (extractProductDetails, index-based and table-based) and the webhook    *)
(* request handlers that translate a form submission into calls against    *)
(* the remote Odoo object API.                                             *)
(*                                                                         *)
(* JavaScript values are modelled as follows.  A string is a TLA+ string   *)
(* (concatenation is \o).  An optional value (a field that may be absent)  *)
(* is a sequence of length 0 or 1.  An object whose key order matters is   *)
(* a sequence of [key, value] records in insertion order.  A value found   *)
(* inside a special_* entry is a record [t, s, o]: the string s when       *)
(* t = "str", the object o (a sequence of [key, value] records with string *)
(* values) when t = "obj".                                                 *)
(***************************************************************************)
EXTENDS Integers, Sequences, FiniteSets, TLC

\* ------------------------------------------------------------------------
\* Bounds of the model
\* ------------------------------------------------------------------------
MaxRequests == 2
MaxNormProducts == 3

\* ------------------------------------------------------------------------
\* State
\* ------------------------------------------------------------------------
VARIABLES
  variant,      \* which handler file this process runs
  uid,          \* module-level "let uid" (0 is null)
  auth,         \* the startup authenticate call: pending, ok, failed, exited
  now,          \* Date.now() of the process clock
  nreq,         \* number of requests received so far
  partners,     \* remote res.partner records: id -> email (optional)
  products,     \* remote product.product records: id -> [name, price, code]
  orders,       \* remote sale.order records: id -> [partner_id, lines, state]
  invoices,     \* remote account.move records
  mails,        \* remote mail.mail records
  req,          \* per request slot: the handler's locals and position
  pending,      \* per request slot: the remote calls in flight
  log,          \* per request slot: remote calls issued and returned, in order
  nsub,         \* normalizer harness: the submission
  nout          \* normalizer harness: the last result

remoteVars == <<partners, products, orders, invoices, mails>>
procVars == <<variant, uid, auth, now, nreq>>
reqVars == <<req, pending, log>>
normVars == <<nsub, nout>>
vars == <<variant, uid, auth, now, nreq, partners, products, orders, invoices, mails,
          req, pending, log, nsub, nout>>

\* ------------------------------------------------------------------------
\* JavaScript helpers
\* ------------------------------------------------------------------------
None == <<>>
Some(x) == <<x>>

StrVal(s) == [t |-> "str", s |-> s, o |-> <<>>]
ObjVal(o) == [t |-> "obj", s |-> "", o |-> o]

\* String(value) as done by a template literal
ToStr(v) == IF v.t = "str" THEN v.s ELSE "[object Object]"

\* truthiness of an optional entry value (undefined and "" are falsy)
Truthy(ov) == ov # None /\ (ov[1].t = "obj" \/ ov[1].s # "")

\* obj[key] for an object given as a sequence of [key, value] records
Get(obj, key) ==
  IF \E i \in 1..Len(obj) : obj[i].key = key
  THEN Some(obj[CHOOSE i \in 1..Len(obj) : obj[i].key = key].value)
  ELSE None

StartsWith(s, p) == Len(s) >= Len(p) /\ SubSeq(s, 1, Len(p)) = p

Contains(s, p) ==
  \E i \in 1..(Len(s) - Len(p) + 1) : SubSeq(s, i, i + Len(p) - 1) = p

DigitVal(c) ==
  CASE c = "0" -> 0 [] c = "1" -> 1 [] c = "2" -> 2 [] c = "3" -> 3
    [] c = "4" -> 4 [] c = "5" -> 5 [] c = "6" -> 6 [] c = "7" -> 7
    [] c = "8" -> 8 [] c = "9" -> 9 [] OTHER -> -1

RECURSIVE DigitsPrefix(_, _, _)
\* value of the longest run of digits of s starting at position i, acc so far
DigitsPrefix(s, i, acc) ==
  IF i > Len(s) \/ DigitVal(SubSeq(s, i, i)) < 0 THEN acc
  ELSE DigitsPrefix(s, i + 1, acc * 10 + DigitVal(SubSeq(s, i, i)))

\* parseInt(s): None is NaN
ParseInt(s) ==
  LET neg == Len(s) >= 1 /\ SubSeq(s, 1, 1) = "-"
      start == IF neg \/ (Len(s) >= 1 /\ SubSeq(s, 1, 1) = "+") THEN 2 ELSE 1
  IN IF start > Len(s) \/ DigitVal(SubSeq(s, start, start)) < 0 THEN None
     ELSE Some((IF neg THEN -1 ELSE 1) * DigitsPrefix(s, start, 0))

\* parseInt(productData.item_0): an absent field is parseInt(undefined) = NaN
ParseIntOpt(ov) == IF ov = None THEN None ELSE ParseInt(ToStr(ov[1]))

RECURSIVE Join(_, _)
\* Array.prototype.join
Join(strs, sep) ==
  IF Len(strs) = 0 THEN ""
  ELSE IF Len(strs) = 1 THEN strs[1]
  ELSE strs[1] \o sep \o Join(Tail(strs), sep)

\* Array.prototype.slice(1)
Slice1(s) == IF Len(s) = 0 THEN <<>> ELSE Tail(s)

RECURSIVE Flatten(_)
\* the concatenation of a sequence of sequences
Flatten(ss) == IF Len(ss) = 0 THEN <<>> ELSE ss[1] \o Flatten(Tail(ss))

Thrown(msg) == [ok |-> FALSE, val |-> <<>>, err |-> msg]
Returned(v) == [ok |-> TRUE, val |-> v, err |-> ""]

\* ------------------------------------------------------------------------
\* extractProductDetails, index-based (webhook.js)
\* ------------------------------------------------------------------------
\* a key counted from 0: `special_100${index}`
SpecialKeyFromZero(index) == "special_100" \o ToString(index)

SpecialKey(index) == "special_100" \o ToString(index + 1)

\* options labelled by the name of the key instead of its position
IndexOptionByKey(product, index, details, idx) ==
  LET key == details[idx + 1].key
      value == ToStr(details[idx + 1].value)
  IN CASE key = "item_0" -> << "Quantity: " \o value >>
       [] key = "item_1" -> << "Color: " \o value >>
       [] key = "item_2" -> << product.productName \o " Size: " \o value >>
       [] OTHER -> <<>>

\* the option pushed for the idx-th key (0-based) of the special entry
IndexOption(product, index, details, idx) ==
  LET key == details[idx + 1].key
      value == ToStr(details[idx + 1].value)
  IN CASE idx = 0 -> << "Quantity: " \o value >>
       [] idx = 1 -> IF key = "item_1" /\ index < 2
                     THEN << "Color: " \o value >>
                     ELSE << "Size: " \o value >>
       [] idx = 2 -> IF key = "item_2"
                     THEN << product.productName \o " Size: " \o value >>
                     ELSE <<>>
       [] OTHER -> <<>>

IndexMappedProduct(q43, index) ==
  LET product == q43.products[1][index + 1]
      specialKey == SpecialKey(index)
      specialDetails == Get(q43.entries, specialKey)
  IN IF specialDetails = None THEN <<>>
     ELSE LET Opt(i) == IndexOption(product, index, specialDetails[1], i - 1)
          IN << [product_id |-> specialKey,
                 product_name |-> product.productName,
                 unit_price |-> product.unitPrice,
                 currency |-> product.currency,
                 quantity |-> product.quantity,
                 subTotal |-> product.subTotal,
                 product_options |->
                    Flatten([k_ \in 1..Len(specialDetails[1]) |-> Opt(k_)])] >>

extractProductDetails(rawRequest) ==
  LET q43 == rawRequest.q43_myProducts
  IN IF q43 = None \/ q43[1].products = None \/ Len(q43[1].products[1]) = 0
     THEN Thrown("The products array inside q43_myProducts is empty or not defined.")
     ELSE LET One(i) == IndexMappedProduct(q43[1], i - 1)
          IN Returned(Flatten([k_ \in 1..Len(q43[1].products[1]) |-> One(k_)]))

\* ------------------------------------------------------------------------
\* extractProductDetails, table-based (part_004)
\* ------------------------------------------------------------------------
productMapping ==
  << [key |-> "special_1001", value |-> [name |-> "T-Shirt", price |-> 1]],
     [key |-> "special_1002", value |-> [name |-> "Sweatshirt", price |-> 5]],
     [key |-> "special_1003", value |-> [name |-> "Shoes", price |-> 10]] >>

\* parseInt(productData.item_0) || 1
TableQuantity(productData) ==
  LET n == ParseIntOpt(Get(productData, "item_0"))
  IN IF n = None \/ n[1] = 0 THEN 1 ELSE n[1]

TableOptions(productKey, productData, quantity) ==
  LET item_1 == Get(productData, "item_1")
      item_2 == Get(productData, "item_2")
  IN << "Quantity: " \o ToString(quantity) >>
     \o (IF Truthy(item_1) THEN << "Color: " \o ToStr(item_1[1]) >> ELSE <<>>)
     \o (IF Truthy(item_2)
         THEN IF productKey \in {"special_1001", "special_1002"}
              THEN << "Size: " \o ToStr(item_2[1]) >>
              ELSE IF productKey = "special_1003"
                   THEN << "Shoe Size: " \o ToStr(item_2[1]) >>
                   ELSE <<>>
         ELSE <<>>)

TableMappedProduct(entry) ==
  LET productKey == entry.key
      productData == entry.value
      productInfo == Get(productMapping, productKey)
      quantity == TableQuantity(productData)
      productOptions == TableOptions(productKey, productData, quantity)
  IN IF ~StartsWith(productKey, "special_") \/ productInfo = None THEN <<>>
     ELSE IF quantity <= 0 THEN <<>>
     ELSE << [product_id |-> productKey,
              product_name |-> productInfo[1].name,
              unit_price |-> productInfo[1].price,
              currency |-> "USD",
              quantity |-> quantity,
              subTotal |-> quantity * productInfo[1].price,
              product_options |-> productOptions,
              formatted_product_name |->
                 productInfo[1].name \o
                 (IF Len(Slice1(productOptions)) > 0
                  THEN " (" \o Join(Slice1(productOptions), ", ") \o ")"
                  ELSE "")] >>

\* a table-based normalizer that returns the list even when it is empty
extractProductDetailsTableMaybeEmpty(rawRequest) ==
  LET q43 == rawRequest.q43_myProducts
  IN IF q43 = None
     THEN Thrown("q43_myProducts is not defined in the webhook data.")
     ELSE LET One(i) == TableMappedProduct(q43[1].entries[i])
          IN Returned(Flatten([k_ \in 1..Len(q43[1].entries) |-> One(k_)]))

\* a table-based normalizer that is the index-based one
extractProductDetailsAsIndexBased(rawRequest) == extractProductDetails(rawRequest)

extractProductDetailsTable(rawRequest) ==
  LET q43 == rawRequest.q43_myProducts
  IN IF q43 = None
     THEN Thrown("q43_myProducts is not defined in the webhook data.")
     ELSE LET One(i) == TableMappedProduct(q43[1].entries[i])
              mappedProducts == Flatten([k_ \in 1..Len(q43[1].entries) |-> One(k_)])
          IN IF Len(mappedProducts) = 0
             THEN Thrown("No valid products found in the order. All quantities might be 0 or products not selected.")
             ELSE Returned(mappedProducts)

\* ------------------------------------------------------------------------
\* Submissions
\* ------------------------------------------------------------------------
KV(k, v) == [key |-> k, value |-> v]
Item(k, s) == KV(k, StrVal(s))

Product(n, p, q) ==
  [productName |-> n, unitPrice |-> p, currency |-> "USD",
   quantity |-> q, subTotal |-> p * q]

Q43(prods, ents) == Some([products |-> prods, entries |-> ents])

\* the special_1001 .. special_1003 entries of the /test sample (part_004)
TestEntries ==
  << KV("special_1001", << Item("item_0", "2"), Item("item_1", "Green"), Item("item_2", "XS") >>),
     KV("special_1002", << Item("item_0", "0"), Item("item_1", "Blue"), Item("item_2", "L") >>),
     KV("special_1003", << Item("item_0", "1"), Item("item_1", ""), Item("item_2", "8") >>) >>

\* normalizer harness: the contents a special_* entry may have
NormData ==
  { <<>>,
    << Item("item_0", "2") >>,
    << Item("item_0", "0"), Item("item_1", "Blue"), Item("item_2", "L") >>,
    << Item("item_0", "2"), Item("item_1", "Green"), Item("item_2", "XS") >>,
    << Item("item_0", "1"), Item("item_1", ""), Item("item_2", "8") >>,
    << Item("item_0", "-1"), Item("item_1", "Red") >>,
    << Item("item_1", "Green"), Item("item_0", "3") >>,
    << Item("item_0", "4"), Item("item_2", "11.5") >>,
    << Item("item_0", "1"), Item("item_1", "Red"), Item("item_3", "M") >>,
    << Item("item_0", "1"), Item("item_1", "Red"), Item("item_2", "M"), Item("item_3", "x") >> }

NormProductPool == { Product("T-Shirt", 1, 7), Product("Shoes", 10, 4) }

NormKeys == << "special_1001", "special_1002", "special_1003" >>

\* every way of giving each key of NormKeys no entry or an entry from NormData
NormEntries ==
  LET Choice == [1..Len(NormKeys) -> {None} \cup {Some(d) : d \in NormData}]
      Ent(c, i) == IF c[i] = None THEN <<>> ELSE << KV(NormKeys[i], c[i][1]) >>
      Build(c) == LET E(i) == Ent(c, i) IN Flatten([k_ \in 1..Len(NormKeys) |-> E(k_)])
  IN { Build(c) : c \in Choice }

NormProducts ==
  {None} \cup
  { Some(ps) : ps \in UNION { [1..n -> NormProductPool] : n \in 0..MaxNormProducts } }

NormSubs ==
  { [q43_myProducts |-> None] } \cup
  { [q43_myProducts |-> Q43(ps, es)] : ps \in NormProducts, es \in NormEntries }

\* the entries of the sample submission of part_004 (reqBody)
SampleEntries ==
  << KV("0", << Item("id", "1001") >>),
     KV("special_1001", << Item("item_0", "7"), Item("item_1", "Green"), Item("item_2", "XXL") >>),
     KV("special_1002", << Item("item_0", "4"), Item("item_1", "11.5") >>) >>

\* the q43_myProducts values the webhook handlers are driven with
HandlerQ43 ==
  { None,
    Q43(Some(<<>>), TestEntries),
    Q43(Some(<< Product("T-Shirt", 1, 7), Product("Shoes", 10, 4) >>), SampleEntries),
    Q43(Some(<< Product("T-Shirt", 1, 7) >>),
        << KV("special_1001", << Item("item_0", "7") >>) >>),
    Q43(Some(<< Product("T-Shirt", 1, 7) >>), <<>>),
    Q43(Some(<< Product("T-Shirt", 1, 7), Product("Shoes", 10, 4) >>),
        << KV("special_1001", <<>>),
           KV("special_1002", << Item("item_1", "Green"), Item("item_0", "3") >>) >>),
    Q43(None, << KV("0", << Item("id", "special_1003"), Item("item_0", "3") >>),
                 KV("1", << Item("id", "special_1001"), Item("item_0", "2") >>) >>),
    Q43(None, << KV("special_1001",
                    << KV("a", ObjVal(<< KV("item_0", "P1"), KV("item_1", "2") >>)) >>) >>) }

Emails == { "a@x.com", "b@x.com" }

Submission(j, n, e, p, q) ==
  [json |-> j, q2_fullName2 |-> n, q3_email3 |-> e, q5_contactNumber |-> p,
   q43_myProducts |-> q]

\* the same product and options at another unit price
RepricedQ43 ==
  Q43(Some(<< Product("T-Shirt", 2, 7) >>),
      << KV("special_1001", << Item("item_0", "7") >>) >>)

GoodQ43 ==
  Q43(Some(<< Product("T-Shirt", 1, 7) >>),
      << KV("special_1001", << Item("item_0", "7") >>) >>)

\* a body whose rawRequest is not JSON; well-formed submissions; submissions
\* that lack the name or the contact number, or carry an empty email
HandlerSubs ==
  { Submission(FALSE, FALSE, None, FALSE, None) } \cup
  { Submission(TRUE, TRUE, e, TRUE, q) :
      e \in {None, Some("a@x.com")}, q \in HandlerQ43 } \cup
  { Submission(TRUE, TRUE, Some(m), TRUE, GoodQ43) : m \in Emails } \cup
  { Submission(TRUE, FALSE, Some("a@x.com"), TRUE, GoodQ43),
    Submission(TRUE, TRUE, Some("a@x.com"), FALSE, GoodQ43),
    Submission(TRUE, TRUE, Some(""), TRUE, GoodQ43),
    Submission(TRUE, TRUE, Some("a@x.com"), TRUE, RepricedQ43) }

\* ------------------------------------------------------------------------
\* Handler variants (one source file section each)
\* ------------------------------------------------------------------------
Sequential == { "webhook", "invoice", "table4a", "table4b" }
Parallel == { "inline3", "inline", "tablekeyed" }
Session == { "session0", "session2" }
XmlRpc == Sequential \cup Parallel
Variants == XmlRpc \cup Session

\* variants whose startup authentication failure ends the process
ExitOnAuthFailure == XmlRpc \ { "inline3" }

Slots == { 1, 2 }

\* ------------------------------------------------------------------------
\* The synchronous prefix of each handler: from the request to the first await
\* ------------------------------------------------------------------------
Placeholder(t) == ToString(t) \o "@noemail.com"

\* rawRequest.q3_email3 || `${Date.now()}@noemail.com`
DefaultEmail(e, t) == IF e = None \/ e[1] = "" THEN Some(Placeholder(t)) ELSE e

Work(n, q, p) == [name |-> n, qty |-> q, price |-> p]

\* the name with every option folded in: product_options.join(', ')
FormattedProductNameAllOptions(product) ==
  LET productOptions == Join(product.product_options, ", ")
  IN IF productOptions # ""
     THEN product.product_name \o " (" \o productOptions \o ")"
     ELSE product.product_name

\* product.product_options.slice(1).join(', ') folded into the name (webhook.js)
FormattedProductName(product) ==
  LET productOptions == Join(Slice1(product.product_options), ", ")
  IN IF productOptions # ""
     THEN product.product_name \o " (" \o productOptions \o ")"
     ELSE product.product_name

Prefix(ok, err, email, mapped, work) ==
  [ok |-> ok, err |-> err, email |-> email, mapped |-> mapped, work |-> work]

PrefixThrow(err) == Prefix(FALSE, err, None, <<>>, <<>>)

\* the products to find or create, names being the display names
WorkOfMapped(mapped, names) ==
  [i \in 1..Len(mapped) |-> Work(names[i], mapped[i].quantity, mapped[i].unit_price)]

\* webhook.js 200-209, given the result of extractProductDetails
WebhookChecks(s, t, mappedResult) ==
  IF ~mappedResult.ok THEN PrefixThrow(mappedResult.err)
  ELSE IF ~s.q2_fullName2 \/ ~s.q5_contactNumber THEN PrefixThrow("TypeError")
  ELSE IF Len(mappedResult.val) = 0
       THEN PrefixThrow("No valid products found in the order")
  ELSE Prefix(TRUE, "", DefaultEmail(s.q3_email3, t), mappedResult.val,
              WorkOfMapped(mappedResult.val,
                [i \in 1..Len(mappedResult.val) |->
                   FormattedProductName(mappedResult.val[i])]))

\* webhook.js 197-209 (and part_001 388-400)
PrefixWebhook(s, t) ==
  IF ~s.json THEN PrefixThrow("SyntaxError")
  ELSE WebhookChecks(s, t, extractProductDetails(s))

\* part_004 974, given the result of extractProductDetails
Table4bChecks(s, t, mappedProducts) ==
  IF ~mappedProducts.ok THEN PrefixThrow(mappedProducts.err)
  ELSE Prefix(TRUE, "", DefaultEmail(s.q3_email3, t), mappedProducts.val,
              WorkOfMapped(mappedProducts.val,
                [i \in 1..Len(mappedProducts.val) |->
                   mappedProducts.val[i].formatted_product_name]))

\* part_004 963-974
PrefixTable4b(s, t) ==
  IF ~s.json THEN PrefixThrow("SyntaxError")
  ELSE IF ~s.q2_fullName2 \/ ~s.q5_contactNumber THEN PrefixThrow("TypeError")
  ELSE Table4bChecks(s, t, extractProductDetailsTable(s))

\* part_004 154-193: one order line per mapped key
Table4aLine(entry) ==
  LET productKey == entry.key
      productData == entry.value
      mappedProduct == Get(productMapping, productKey)
      quantity == TableQuantity(productData)
      options == Slice1(TableOptions(productKey, productData, quantity))
  IN IF productKey \in {"products", "totalInfo"} \/ mappedProduct = None THEN <<>>
     ELSE << Work(mappedProduct[1].name \o
                    (IF Len(options) > 0 THEN " (" \o Join(options, ", ") \o ")" ELSE ""),
                  quantity, mappedProduct[1].price) >>

\* part_004 195-199, given the order lines
Table4aChecks(s, t, orderLines) ==
  IF Len(orderLines) = 0
  THEN PrefixThrow("No valid products found in the order")
  ELSE Prefix(TRUE, "", DefaultEmail(s.q3_email3, t), <<>>, orderLines)

Table4aLines(entries) ==
  LET L(i) == Table4aLine(entries[i]) IN Flatten([k_ \in 1..Len(entries) |-> L(k_)])

\* part_004 135-199
PrefixTable4a(s, t) ==
  IF ~s.json THEN PrefixThrow("SyntaxError")
  ELSE IF ~s.q2_fullName2 \/ ~s.q5_contactNumber \/ s.q43_myProducts = None
       THEN PrefixThrow("TypeError")
  ELSE Table4aChecks(s, t, Table4aLines(s.q43_myProducts[1].entries))

\* server.js 782-795: productMapping[product.id], quantity parseInt(item_0)
TableKeyedLine(entry) ==
  LET id == Get(entry.value, "id")
      mappedProduct == IF id = None THEN None ELSE Get(productMapping, ToStr(id[1]))
  IN IF mappedProduct = None THEN <<>>
     ELSE << Work(mappedProduct[1].name,
                  ParseIntOpt(Get(entry.value, "item_0")),
                  mappedProduct[1].price) >>

\* server.js 766-795
PrefixTableKeyed(s, t) ==
  IF ~s.json THEN PrefixThrow("SyntaxError")
  ELSE IF ~s.q2_fullName2 \/ ~s.q5_contactNumber \/ s.q43_myProducts = None
       THEN PrefixThrow("TypeError")
  ELSE LET L(i) == TableKeyedLine(s.q43_myProducts[1].entries[i])
       IN Prefix(TRUE, "", DefaultEmail(s.q3_email3, t), <<>>,
                 Flatten([k_ \in 1..Len(s.q43_myProducts[1].entries) |-> L(k_)]))

ProductsWork(ps) ==
  LET W(i) == << Work(ps[i].productName, ps[i].quantity, ps[i].unitPrice) >>
  IN Flatten([k_ \in 1..Len(ps) |-> W(k_)])

\* server.js 1229-1234: products = rawRequest.q43_myProducts.products || []
PrefixInline(s, t) ==
  IF ~s.json THEN PrefixThrow("SyntaxError")
  ELSE IF ~s.q2_fullName2 \/ ~s.q5_contactNumber \/ s.q43_myProducts = None
       THEN PrefixThrow("TypeError")
  ELSE Prefix(TRUE, "", DefaultEmail(s.q3_email3, t), <<>>,
              IF s.q43_myProducts[1].products = None THEN <<>>
              ELSE ProductsWork(s.q43_myProducts[1].products[1]))

\* part_003 34-39: the email is passed on as it came; products may be undefined
PrefixInline3(s, t) ==
  IF ~s.json THEN PrefixThrow("SyntaxError")
  ELSE IF ~s.q2_fullName2 \/ ~s.q5_contactNumber \/ s.q43_myProducts = None
       THEN PrefixThrow("TypeError")
  ELSE Prefix(TRUE, "", s.q3_email3, <<>>,
              IF s.q43_myProducts[1].products = None THEN <<>>
              ELSE ProductsWork(s.q43_myProducts[1].products[1]))

\* productInfo.item_0 and parseInt(productInfo.item_1, 10)
PInfo(code, q) == [item_0 |-> code, quantity |-> q]

\* parseInt(x, 10) of an optional string
ParseInt10(os) == IF os = None THEN None ELSE ParseInt(os[1])

\* part_000 99-104, part_002 64-69: one productInfo per value of each key of
\* q43_myProducts (for..in over an undefined q43_myProducts runs no iteration)
ProductInfos(s) ==
  LET q == s.q43_myProducts
      Info(v) == IF v.t = "obj"
                 THEN PInfo(Get(v.o, "item_0"), ParseInt10(Get(v.o, "item_1")))
                 ELSE PInfo(None, None)
      OfEntry(e) == LET I(j) == << Info(e.value[j].value) >>
                    IN Flatten([k_ \in 1..Len(e.value) |-> I(k_)])
      E(i) == OfEntry(q[1].entries[i])
      P(i) == << PInfo(None, None) >>
  IN IF q = None THEN <<>>
     ELSE Flatten([k_ \in 1..Len(q[1].entries) |-> E(k_)]) \o
          (IF q[1].products = None THEN <<>>
           ELSE Flatten([k_ \in 1..Len(q[1].products[1]) |-> P(k_)]))

\* part_000 / part_002: nothing is read before authenticateOdoo is awaited
PrefixSession(s, t) == Prefix(TRUE, "", s.q3_email3, <<>>, ProductInfos(s))

HandlerPrefix(v, s, t) ==
  CASE v \in {"webhook", "invoice"} -> PrefixWebhook(s, t)
    [] v = "table4a" -> PrefixTable4a(s, t)
    [] v = "table4b" -> PrefixTable4b(s, t)
    [] v = "tablekeyed" -> PrefixTableKeyed(s, t)
    [] v = "inline" -> PrefixInline(s, t)
    [] v = "inline3" -> PrefixInline3(s, t)
    [] OTHER -> PrefixSession(s, t)

\* ------------------------------------------------------------------------
\* Requests, remote calls and the remote object API
\* ------------------------------------------------------------------------
NoResponse == [status |-> 0, emailSent |-> FALSE, orderLines |-> 0]

IdleReq ==
  [pc |-> "idle", sub |-> None, email |-> None, mapped |-> <<>>, work |-> <<>>,
   customerId |-> 0, proms |-> <<>>, lines |-> <<>>, saleOrderId |-> 0,
   invoiceId |-> 0, saleOrder |-> None, invoiceDetails |-> None, mailId |-> 0,
   emailResult |-> 0, response |-> NoResponse]

\* a remote call in flight: id 0 is the handler's own chain, id i > 0 the
\* promise of the i-th product; uid is the credential the call is made with
\* arg is the optional string argument (an email, a default_code), name a
\* product name, num a number (a price, an id), lines the order lines
Call(id, op, arg, name, num, lines) ==
  [id |-> id, op |-> op, arg |-> arg, name |-> name, num |-> num,
   lines |-> lines, uid |-> uid]

Line(pid, n, q, p) ==
  [product_id |-> pid, name |-> n, product_uom_qty |-> q, price_unit |-> p]

\* res.status(...).json(...) / send(...): the handler is over
Respond(rq, status, emailSent) ==
  [rq EXCEPT !.pc = "done",
             !.response = [status |-> status, emailSent |-> emailSent,
                           orderLines |-> Len(rq.lines)]]

\* a catch block that answers 502
CatchBadGateway(rq) == Respond(rq, 502, FALSE)

\* the catch block of every handler
Catch(rq) == Respond(rq, 500, FALSE)

\* what a callback leaves behind: the request's new locals and the calls it issues
Step(rq, calls) == [req |-> rq, calls |-> calls]

\* res.partner search: the ids of the partners with this email, oldest first
PartnerIds(email) ==
  LET Hit(i) == IF partners[i] = email THEN << i >> ELSE <<>>
  IN Flatten([k_ \in 1..Len(partners) |-> Hit(k_)])

\* product.product search_read with limit 1, by name
ProductByName(name) ==
  LET Hit(i) == IF products[i].name = name THEN << i >> ELSE <<>>
  IN Flatten([k_ \in 1..Len(products) |-> Hit(k_)])

\* product.product search_read by default_code
ProductByCode(code) ==
  LET Hit(i) == IF products[i].code = code THEN << i >> ELSE <<>>
  IN Flatten([k_ \in 1..Len(products) |-> Hit(k_)])

Quiescent(r) == req[r].pc \in {"idle", "done"} /\ pending[r] = {}

Event(ev, c, ok) == [ev |-> ev, op |-> c.op, id |-> c.id, ok |-> ok]

RECURSIVE CallEvents(_)
CallEvents(calls) ==
  IF Len(calls) = 0 THEN <<>>
  ELSE << Event("call", calls[1], TRUE) >> \o CallEvents(Tail(calls))

SeqToSet(q) == { q[i] : i \in 1..Len(q) }

\* the callback of call c of request r ran: c is no longer in flight, the
\* request's locals are st.req and the calls st.calls were issued, in order
Deliver(r, c, ok, st) ==
  /\ req' = [req EXCEPT ![r] = st.req]
  /\ pending' = [pending EXCEPT ![r] = (@ \ {c}) \cup SeqToSet(st.calls)]
  /\ log' = [log EXCEPT ![r] = (@ \o << Event("ret", c, ok) >>) \o CallEvents(st.calls)]

\* the remote API serves a call only with valid credentials: the uid of the
\* startup authentication (XML-RPC) or the session cookie of the request
CanSucceed(c) == variant \in Session \/ c.uid # 0

\* process.exit(1) ends everything the process does
Up == auth # "exited"

\* a call in flight returns to a live process, with a result or with an error
Ready(c, ok) == Up /\ (ok => CanSucceed(c))

\* ------------------------------------------------------------------------
\* Continuations of the handlers
\* ------------------------------------------------------------------------
CreateSaleOrderCall(rq, lines) == Call(0, "order.create", None, "", rq.customerId, lines)

ProductSearchCall(rq, i) ==
  Call(i, "product.search", None, rq.work[i].name, rq.work[i].price, <<>>)

\* a product step that starts every lookup at once in every handler
AfterCustomerAllAtOnce(rq, cid) ==
  LET n == Len(rq.work)
      rc == [rq EXCEPT !.customerId = cid, !.pc = "products",
                       !.proms = [i \in 1..n |-> [st |-> "pending", line |-> None]]]
      All(i) == << ProductSearchCall(rq, i) >>
  IN IF n = 0
     THEN Step([rc EXCEPT !.pc = "order"], << CreateSaleOrderCall(rc, <<>>) >>)
     ELSE Step(rc, Flatten([k_ \in 1..n |-> All(k_)]))

\* createOrFindCustomer resolved with cid: the product step begins
AfterCustomer(rq, cid) ==
  LET rc == [rq EXCEPT !.customerId = cid, !.pc = "products"]
      n == Len(rq.work)
      All(i) == << ProductSearchCall(rq, i) >>
  IN IF variant \in Sequential
     THEN \* for (const product of mappedResult) { await findOrCreateProduct(...) }
          IF n = 0
          THEN Step([rc EXCEPT !.pc = "order"], << CreateSaleOrderCall(rc, <<>>) >>)
          ELSE Step(rc, << ProductSearchCall(rq, 1) >>)
     ELSE \* products.map(product => new Promise(...)); await Promise.all(...)
          IF variant = "inline3" /\ rq.sub[1].q43_myProducts[1].products = None
          THEN Step(Catch(rc), <<>>)
          ELSE IF n = 0
          THEN Step([rc EXCEPT !.pc = "order"], << CreateSaleOrderCall(rc, <<>>) >>)
          ELSE Step([rc EXCEPT !.proms = [i \in 1..n |-> [st |-> "pending", line |-> None]]],
                    Flatten([k_ \in 1..n |-> All(k_)]))

\* a product step that creates the order as soon as one product resolved
AfterProductFirstOnly(rq, i, pid) ==
  LET w == rq.work[i]
      rl == [rq EXCEPT !.lines = Append(@, Line(pid, w.name, w.qty, w.price))]
  IN Step([rl EXCEPT !.pc = "order"], << CreateSaleOrderCall(rl, rl.lines) >>)

\* the i-th product resolved with id pid
AfterProduct(rq, i, pid) ==
  LET w == rq.work[i]
      line == Line(pid, w.name, w.qty, w.price)
  IN IF variant \in Sequential
     THEN LET rl == [rq EXCEPT !.lines = Append(@, line)]
          IN IF i < Len(rq.work)
             THEN Step(rl, << ProductSearchCall(rq, i + 1) >>)
             ELSE Step([rl EXCEPT !.pc = "order"], << CreateSaleOrderCall(rl, rl.lines) >>)
     ELSE LET rp == [rq EXCEPT !.proms[i] = [st |-> "ok", line |-> Some(line)]]
              lines == [j \in 1..Len(rp.proms) |-> rp.proms[j].line[1]]
          IN IF rq.pc = "products" /\ \A j \in 1..Len(rp.proms) : rp.proms[j].st = "ok"
             THEN Step([rp EXCEPT !.lines = lines, !.pc = "order"],
                       << CreateSaleOrderCall(rp, lines) >>)
             ELSE Step(rp, <<>>)

\* the i-th product rejected
ProductRejected(rq, i) ==
  IF variant \in Sequential THEN Step(Catch(rq), <<>>)
  ELSE LET rp == [rq EXCEPT !.proms[i] = [st |-> "err", line |-> None]]
       IN IF rq.pc = "products" THEN Step(Catch(rp), <<>>) ELSE Step(rp, <<>>)

\* part_000 94-118 / part_002 60-89: the partner was created with id pid
AfterSessionCustomer(rq, pid) ==
  LET rc == [rq EXCEPT !.customerId = pid]
      FormLine(i) == << Line(rq.work[i].item_0, "", rq.work[i].quantity, 100) >>
      lines == Flatten([k_ \in 1..Len(rq.work) |-> FormLine(k_)])
  IN IF variant = "session2"
     THEN Step([rc EXCEPT !.lines = lines, !.pc = "order"],
               << CreateSaleOrderCall(rc, lines) >>)
     ELSE IF Len(rq.work) = 0
          THEN Step([rc EXCEPT !.pc = "order"], << CreateSaleOrderCall(rc, <<>>) >>)
          ELSE Step([rc EXCEPT !.pc = "products"],
                    << Call(1, "product.bycode", rq.work[1].item_0, "", 0, <<>>) >>)

\* part_000 107-116: getProductIdByCodeOrName returned pid for productInfo i
AfterCodeLookup(rq, i, pid) ==
  LET rl == [rq EXCEPT !.lines = Append(@, Line(pid, "", rq.work[i].quantity, 100))]
  IN IF i < Len(rq.work)
     THEN Step(rl, << Call(i + 1, "product.bycode", rq.work[i + 1].item_0, "", 0, <<>>) >>)
     ELSE Step([rl EXCEPT !.pc = "order"], << CreateSaleOrderCall(rl, rl.lines) >>)

\* ------------------------------------------------------------------------
\* Initial state
\* ------------------------------------------------------------------------
UidOfLogin == 2

\* the catalog the remote system starts with: one product with a default_code
Catalog == << [name |-> "Cap", price |-> 100, code |-> Some("P1")] >>

InitRemote ==
  /\ partners = <<>>
  /\ products = Catalog
  /\ orders = <<>>
  /\ invoices = <<>>
  /\ mails = <<>>

InitRequests ==
  /\ req = [r \in Slots |-> IdleReq]
  /\ pending = [r \in Slots |-> {}]
  /\ log = [r \in Slots |-> <<>>]

Init ==
  /\ variant \in Variants
  /\ uid = 0
  /\ auth = IF variant \in XmlRpc THEN "pending" ELSE "none"
  /\ now = 1000
  /\ nreq = 0
  /\ InitRemote
  /\ InitRequests
  /\ nsub = [q43_myProducts |-> None]
  /\ nout = [fn |-> "none", res |-> Thrown("")]

\* ------------------------------------------------------------------------
\* Startup authentication (webhook.js 24-32, part_003 25-30)
\* ------------------------------------------------------------------------
AuthOk ==
  /\ auth = "pending"
  /\ uid' = UidOfLogin
  /\ auth' = "ok"
  /\ UNCHANGED <<variant, now, nreq, remoteVars, reqVars, normVars>>

\* err || !res: process.exit(1); part_003 only logs and keeps serving
AuthFail ==
  /\ auth = "pending"
  /\ auth' = IF variant \in ExitOnAuthFailure THEN "exited" ELSE "failed"
  /\ UNCHANGED <<variant, uid, now, nreq, remoteVars, reqVars, normVars>>


\* ------------------------------------------------------------------------
\* app.post('/webhook'): the request arrives and runs up to its first await
\* ------------------------------------------------------------------------
FirstCall(pre) ==
  IF variant \in Session
  THEN Call(0, "session.authenticate", None, "", 0, <<>>)
  ELSE Call(0, "partner.search", pre.email, "", 0, <<>>)

\* a handler that searches the customer before it looks at the products
BeginCustomerFirst(r, s, t, pre) ==
  /\ now' = t
  /\ req' = [req EXCEPT ![r] =
               IF pre.ok
               THEN [IdleReq EXCEPT !.sub = Some(s), !.email = pre.email,
                                    !.mapped = pre.mapped, !.work = pre.work,
                                    !.pc = "customer"]
               ELSE Catch([IdleReq EXCEPT !.sub = Some(s)])]
  /\ pending' = [pending EXCEPT ![r] = {FirstCall(pre)}]
  /\ log' = [log EXCEPT ![r] = CallEvents(<< FirstCall(pre) >>)]

\* the handler ran its prefix at time t with outcome pre
Begin(r, s, t, pre) ==
  /\ now' = t
  /\ req' = [req EXCEPT ![r] =
               IF pre.ok
               THEN [IdleReq EXCEPT !.sub = Some(s), !.email = pre.email,
                                    !.mapped = pre.mapped, !.work = pre.work,
                                    !.pc = "customer"]
               ELSE Catch([IdleReq EXCEPT !.sub = Some(s)])]
  /\ pending' = [pending EXCEPT ![r] = IF pre.ok THEN {FirstCall(pre)} ELSE {}]
  /\ log' = [log EXCEPT ![r] = IF pre.ok THEN CallEvents(<< FirstCall(pre) >>) ELSE <<>>]

Receive(r, s, overlap) ==
  /\ Up
  /\ nreq < MaxRequests
  /\ Quiescent(r)
  /\ \A q \in Slots : q < r => ~Quiescent(q)
  /\ overlap \/ \A q \in Slots : Quiescent(q)
  \* express.json() has parsed the body before the session handlers run
  /\ variant \in Session => s.json
  /\ \E t \in (IF \A q \in Slots : Quiescent(q) THEN {now + 1} ELSE {now, now + 1}) :
       Begin(r, s, t, HandlerPrefix(variant, s, t))
  /\ nreq' = nreq + 1
  /\ UNCHANGED <<variant, uid, auth, remoteVars, normVars>>

\* ------------------------------------------------------------------------
\* Callbacks of the remote calls
\* ------------------------------------------------------------------------
\* a callback that clears the credential
FrameWritesUid == uid' = 0 /\ UNCHANGED <<variant, auth, now, nreq, normVars>>

\* no callback of a handler assigns a module-level variable
Frame == UNCHANGED <<procVars, normVars>>

\* webhook.js 41-63: the callback of res.partner search
PartnerSearchReturn(r, c, ok) ==
  /\ c.op = "partner.search"
  /\ Ready(c, ok)
  /\ LET rq == req[r]
         ids == PartnerIds(c.arg)
     IN Deliver(r, c, ok,
          IF ~ok THEN Step(Catch(rq), <<>>)
          ELSE IF Len(ids) > 0 THEN AfterCustomer(rq, ids[1])
          ELSE Step(rq, << Call(0, "partner.create", c.arg, "", 0, <<>>) >>))
  /\ UNCHANGED remoteVars
  /\ Frame

\* webhook.js 59-62, part_000 84-88: the callback of res.partner create
PartnerCreateReturn(r, c, ok) ==
  /\ c.op = "partner.create"
  /\ Ready(c, ok)
  /\ LET rq == req[r]
         newId == Len(partners) + 1
     IN Deliver(r, c, ok,
          IF ~ok THEN Step(Catch(rq), <<>>)
          ELSE IF variant \in Session THEN AfterSessionCustomer(rq, newId)
          ELSE AfterCustomer(rq, newId))
  /\ partners' = IF ok THEN Append(partners, c.arg) ELSE partners
  /\ UNCHANGED <<products, orders, invoices, mails>>
  /\ Frame

\* a search callback that creates the product whatever the search returned
ProductSearchReturnAlwaysCreates(r, c, ok) ==
  /\ c.op = "product.search"
  /\ Ready(c, ok)
  /\ LET rq == req[r]
     IN Deliver(r, c, ok,
          IF ~ok THEN ProductRejected(rq, c.id)
          ELSE Step(rq, << Call(c.id, "product.create", None, c.name, c.num, <<>>) >>))
  /\ UNCHANGED remoteVars
  /\ Frame

\* webhook.js 75-94, part_003 81-92, server.js 1276-1317: the callback of
\* product.product search_read
ProductSearchReturn(r, c, ok) ==
  /\ c.op = "product.search"
  /\ Ready(c, ok)
  /\ LET rq == req[r]
         result == ProductByName(c.name)
     IN Deliver(r, c, ok,
          IF ~ok THEN ProductRejected(rq, c.id)
          ELSE IF Len(result) > 0 THEN AfterProduct(rq, c.id, result[1])
          ELSE IF variant = "inline3" THEN AfterProduct(rq, c.id, 0)
          ELSE Step(rq, << Call(c.id, "product.create", None, c.name, c.num, <<>>) >>))
  /\ UNCHANGED remoteVars
  /\ Frame

\* webhook.js 90-93, server.js 1305-1316: the callback of product.product create
ProductCreateReturn(r, c, ok) ==
  /\ c.op = "product.create"
  /\ Ready(c, ok)
  /\ LET rq == req[r]
         newId == Len(products) + 1
     IN Deliver(r, c, ok,
          IF ~ok THEN ProductRejected(rq, c.id) ELSE AfterProduct(rq, c.id, newId))
  /\ products' = IF ok
                 THEN Append(products, [name |-> c.name, price |-> c.num, code |-> None])
                 ELSE products
  /\ UNCHANGED <<partners, orders, invoices, mails>>
  /\ Frame

\* part_000 52-61: getProductIdByCodeOrName
ProductCodeReturn(r, c, ok) ==
  /\ c.op = "product.bycode"
  /\ Ready(c, ok)
  /\ LET rq == req[r]
         result == ProductByCode(c.arg)
     IN Deliver(r, c, ok,
          IF ~ok \/ Len(result) = 0 THEN Step(Catch(rq), <<>>)
          ELSE AfterCodeLookup(rq, c.id, result[1]))
  /\ UNCHANGED remoteVars
  /\ Frame

\* webhook.js 108-111, 240-244; part_000 135-136, 172-175: sale.order create
OrderCreateReturn(r, c, ok) ==
  /\ c.op = "order.create"
  /\ Ready(c, ok)
  /\ LET rq == req[r]
         id == Len(orders) + 1
         rs == [rq EXCEPT !.saleOrderId = id]
     IN Deliver(r, c, ok,
          IF ~ok THEN Step(Catch(rq), <<>>)
          ELSE IF variant \in Session
               THEN Step([rs EXCEPT !.pc = "invoice"],
                         << Call(0, "session.invoice", None, "", id, <<>>) >>)
               ELSE Step([rs EXCEPT !.pc = "confirm"],
                         << Call(0, "order.confirm", None, "", id, <<>>) >>))
  /\ orders' = IF ok
               THEN Append(orders, [partner_id |-> c.num, order_line |-> c.lines,
                                    state |-> "draft"])
               ELSE orders
  /\ UNCHANGED <<partners, products, invoices, mails>>
  /\ Frame

\* webhook.js 122-124, 244-253: sale.order action_confirm
ConfirmReturn(r, c, ok) ==
  /\ c.op = "order.confirm"
  /\ Ready(c, ok)
  /\ LET rq == req[r]
     IN Deliver(r, c, ok,
          IF ~ok THEN Step(Catch(rq), <<>>)
          ELSE IF variant = "invoice"
               THEN Step([rq EXCEPT !.pc = "invoice"],
                         << Call(0, "order.read", None, "", rq.saleOrderId, <<>>) >>)
               ELSE Step(Respond(rq, 200, FALSE), <<>>))
  /\ orders' = IF ok THEN [orders EXCEPT ![c.num].state = "sale"] ELSE orders
  /\ UNCHANGED <<partners, products, invoices, mails>>
  /\ Frame

\* part_000 30-38, 169-172: authenticateOdoo, then createSaleOrder begins with
\* createCustomer, which reads the name and the contact number
SessionAuthReturn(r, c, ok) ==
  /\ c.op = "session.authenticate"
  /\ Ready(c, ok)
  /\ LET rq == req[r]
         s == rq.sub[1]
     IN Deliver(r, c, ok,
          IF ~ok THEN Step(Catch(rq), <<>>)
          ELSE IF ~s.q2_fullName2 \/ (variant = "session0" /\ ~s.q5_contactNumber)
               THEN Step(Catch(rq), <<>>)
          ELSE Step(rq, << Call(0, "partner.create", rq.email, "", 0, <<>>) >>))
  /\ UNCHANGED remoteVars
  /\ Frame

\* part_000 143-160, 175-178: createInvoice(saleOrderId), then res.json
SessionInvoiceReturn(r, c, ok) ==
  /\ c.op = "session.invoice"
  /\ Ready(c, ok)
  /\ LET rq == req[r]
     IN Deliver(r, c, ok,
          IF ~ok THEN Step(Catch(rq), <<>>) ELSE Step(Respond(rq, 200, FALSE), <<>>))
  /\ invoices' = IF ok
                 THEN Append(invoices,
                        [partner_id |-> c.num, origin |-> 0, state |-> "draft",
                         lines |-> << [product_id |-> c.num, name |-> "",
                                       quantity |-> 1, price_unit |-> 0] >>])
                 ELSE invoices
  /\ UNCHANGED <<partners, products, orders, mails>>
  /\ Frame

\* ------------------------------------------------------------------------
\* The invoice steps of part_001
\* ------------------------------------------------------------------------
\* part_001 138-153: sale.order read, then account.move create without lines
OrderReadReturn(r, c, ok) ==
  /\ c.op = "order.read"
  /\ Ready(c, ok)
  /\ LET rq == req[r]
         saleOrder == orders[c.num]
     IN Deliver(r, c, ok,
          IF ~ok THEN Step(Catch(rq), <<>>)
          ELSE Step([rq EXCEPT !.saleOrder = Some([id |-> c.num,
                                                   partner_id |-> saleOrder.partner_id])],
                    << Call(0, "invoice.create", None, "", saleOrder.partner_id, <<>>) >>))
  /\ UNCHANGED remoteVars
  /\ Frame

\* part_001 153-162: the invoice id, then sale.order.line read
InvoiceCreateReturn(r, c, ok) ==
  /\ c.op = "invoice.create"
  /\ Ready(c, ok)
  /\ LET rq == req[r]
         invoiceId == Len(invoices) + 1
     IN Deliver(r, c, ok,
          IF ~ok THEN Step(Catch(rq), <<>>)
          ELSE Step([rq EXCEPT !.invoiceId = invoiceId],
                    << Call(0, "orderline.read", None, "", rq.saleOrder[1].id, <<>>) >>))
  /\ invoices' = IF ok
                 THEN Append(invoices, [partner_id |-> c.num, origin |-> req[r].saleOrder[1].id,
                                        state |-> "draft", lines |-> <<>>])
                 ELSE invoices
  /\ UNCHANGED <<partners, products, orders, mails>>
  /\ Frame

\* an invoice whose lines all carry the quantity 1
OrderLineReadReturnUnitQuantity(r, c, ok) ==
  /\ c.op = "orderline.read"
  /\ Ready(c, ok)
  /\ LET rq == req[r]
         orderLines == orders[c.num].order_line
         invoiceLines == [i \in 1..Len(orderLines) |->
                            [product_id |-> orderLines[i].product_id,
                             name |-> orderLines[i].name,
                             quantity |-> 1,
                             price_unit |-> orderLines[i].price_unit]]
     IN Deliver(r, c, ok,
          IF ~ok THEN Step(Catch(rq), <<>>)
          ELSE Step(rq, << Call(0, "invoice.write", None, "", rq.invoiceId, invoiceLines) >>))
  /\ UNCHANGED remoteVars
  /\ Frame

\* part_001 162-177: one invoice line per order line, then account.move write
OrderLineReadReturn(r, c, ok) ==
  /\ c.op = "orderline.read"
  /\ Ready(c, ok)
  /\ LET rq == req[r]
         orderLines == orders[c.num].order_line
         invoiceLines == [i \in 1..Len(orderLines) |->
                            [product_id |-> orderLines[i].product_id,
                             name |-> orderLines[i].name,
                             quantity |-> orderLines[i].product_uom_qty,
                             price_unit |-> orderLines[i].price_unit]]
     IN Deliver(r, c, ok,
          IF ~ok THEN Step(Catch(rq), <<>>)
          ELSE Step(rq, << Call(0, "invoice.write", None, "", rq.invoiceId, invoiceLines) >>))
  /\ UNCHANGED remoteVars
  /\ Frame

\* part_001 177-180, 439-443: resolve(invoiceId), then postInvoice(invoiceId)
InvoiceWriteReturn(r, c, ok) ==
  /\ c.op = "invoice.write"
  /\ Ready(c, ok)
  /\ LET rq == req[r]
     IN Deliver(r, c, ok,
          IF ~ok THEN Step(Catch(rq), <<>>)
          ELSE Step([rq EXCEPT !.pc = "post"],
                    << Call(0, "invoice.post", None, "", rq.invoiceId, <<>>) >>))
  /\ invoices' = IF ok THEN [invoices EXCEPT ![c.num].lines = c.lines] ELSE invoices
  /\ UNCHANGED <<partners, products, orders, mails>>
  /\ Frame

\* part_001 194-197, 443-447: action_post, then getInvoiceDetails(invoiceId)
InvoicePostReturn(r, c, ok) ==
  /\ c.op = "invoice.post"
  /\ Ready(c, ok)
  /\ LET rq == req[r]
     IN Deliver(r, c, ok,
          IF ~ok THEN Step(Catch(rq), <<>>)
          ELSE Step([rq EXCEPT !.pc = "details"],
                    << Call(0, "invoice.read", None, "", rq.invoiceId, <<>>) >>))
  /\ invoices' = IF ok THEN [invoices EXCEPT ![c.num].state = "posted"] ELSE invoices
  /\ UNCHANGED <<partners, products, orders, mails>>
  /\ Frame

\* part_001 209-212, 447-453: the invoice details, then sendInvoiceByEmail
InvoiceReadReturn(r, c, ok) ==
  /\ c.op = "invoice.read"
  /\ Ready(c, ok)
  /\ LET rq == req[r]
     IN Deliver(r, c, ok,
          IF ~ok THEN Step(Catch(rq), <<>>)
          ELSE Step([rq EXCEPT !.pc = "email",
                               !.invoiceDetails = Some([state |-> invoices[c.num].state])],
                    << Call(0, "template.search", None, "", rq.invoiceId, <<>>) >>))
  /\ UNCHANGED remoteVars
  /\ Frame

\* part_001 451-472: the email step is over; emailSent: emailResult ? true : false
EmailDone(rq, emailResult) ==
  Step(Respond([rq EXCEPT !.emailResult = emailResult], 200, emailResult # 0), <<>>)

\* an email step without its own try/catch: the failure reaches the handler's catch
EmailFailedFailsRequest(rq) == Step(Catch(rq), <<>>)

\* part_001 455-459: the catch around sendInvoiceByEmail
EmailFailed(rq) == EmailDone(rq, 0)

\* part_001 224-245: mail.template search; found says whether the remote
\* system has an invoice template
TemplateSearchReturn(r, c, ok, found) ==
  /\ c.op = "template.search"
  /\ Ready(c, ok)
  /\ LET rq == req[r]
     IN Deliver(r, c, ok,
          IF ~ok THEN EmailFailed(rq)
          ELSE IF found
               THEN Step(rq, << Call(0, "template.send_mail", None, "", c.num, <<>>) >>)
               ELSE Step(rq, << Call(0, "invoice.read.manual", None, "", c.num, <<>>) >>))
  /\ UNCHANGED remoteVars
  /\ Frame

\* part_001 237-240: mail.template send_mail returns the id of the mail
SendMailReturn(r, c, ok) ==
  /\ c.op = "template.send_mail"
  /\ Ready(c, ok)
  /\ LET rq == req[r]
     IN Deliver(r, c, ok,
          IF ~ok THEN EmailFailed(rq) ELSE EmailDone(rq, Len(mails) + 1))
  /\ mails' = IF ok
              THEN Append(mails, [email_to |-> partners[invoices[c.num].partner_id],
                                  res_id |-> c.num, sent |-> TRUE])
              ELSE mails
  /\ UNCHANGED <<partners, products, orders, invoices>>
  /\ Frame

\* part_001 257-279: account.move read, then mail.mail create
ManualInvoiceReadReturn(r, c, ok) ==
  /\ c.op = "invoice.read.manual"
  /\ Ready(c, ok)
  /\ LET rq == req[r]
     IN Deliver(r, c, ok,
          IF ~ok THEN EmailFailed(rq)
          ELSE Step(rq, << Call(0, "mail.create", None, "", c.num, <<>>) >>))
  /\ UNCHANGED remoteVars
  /\ Frame

\* part_001 279-288: the mail id, then res.partner read of the invoice's partner
MailCreateReturn(r, c, ok) ==
  /\ c.op = "mail.create"
  /\ Ready(c, ok)
  /\ LET rq == req[r]
     IN Deliver(r, c, ok,
          IF ~ok THEN EmailFailed(rq)
          ELSE Step([rq EXCEPT !.mailId = Len(mails) + 1],
                    << Call(0, "partner.read", None, "", invoices[c.num].partner_id, <<>>) >>))
  /\ mails' = IF ok
              THEN Append(mails, [email_to |-> Some(""), res_id |-> c.num, sent |-> FALSE])
              ELSE mails
  /\ UNCHANGED <<partners, products, orders, invoices>>
  /\ Frame

\* part_001 288-302: reject when the partner has no email, else mail.mail write
PartnerReadReturn(r, c, ok) ==
  /\ c.op = "partner.read"
  /\ Ready(c, ok)
  /\ LET rq == req[r]
         customerEmail == partners[c.num]
     IN Deliver(r, c, ok,
          IF ~ok THEN EmailFailed(rq)
          ELSE IF customerEmail = None \/ customerEmail[1] = "" THEN EmailFailed(rq)
          ELSE Step(rq, << Call(0, "mail.write", customerEmail, "", rq.mailId, <<>>) >>))
  /\ UNCHANGED remoteVars
  /\ Frame

\* part_001 302-309: mail.mail write, then mail.mail send
MailWriteReturn(r, c, ok) ==
  /\ c.op = "mail.write"
  /\ Ready(c, ok)
  /\ LET rq == req[r]
     IN Deliver(r, c, ok,
          IF ~ok THEN EmailFailed(rq)
          ELSE Step(rq, << Call(0, "mail.send", None, "", c.num, <<>>) >>))
  /\ mails' = IF ok THEN [mails EXCEPT ![c.num].email_to = c.arg] ELSE mails
  /\ UNCHANGED <<partners, products, orders, invoices>>
  /\ Frame

\* part_001 310-313: mail.mail send, then resolve(mailId)
MailSendReturn(r, c, ok) ==
  /\ c.op = "mail.send"
  /\ Ready(c, ok)
  /\ LET rq == req[r]
     IN Deliver(r, c, ok,
          IF ~ok THEN EmailFailed(rq) ELSE EmailDone(rq, rq.mailId))
  /\ mails' = IF ok THEN [mails EXCEPT ![c.num].sent = TRUE] ELSE mails
  /\ UNCHANGED <<partners, products, orders, invoices>>
  /\ Frame

\* ------------------------------------------------------------------------
\* The normalizer harness: the two extractProductDetails applied to nsub
\* ------------------------------------------------------------------------
RunIndexBased ==
  /\ nout.fn = "none"
  /\ nout' = [fn |-> "index", res |-> extractProductDetails(nsub)]
  /\ UNCHANGED <<nsub, procVars, remoteVars, reqVars>>

RunTableBased ==
  /\ nout.fn = "none"
  /\ nout' = [fn |-> "table", res |-> extractProductDetailsTable(nsub)]
  /\ UNCHANGED <<nsub, procVars, remoteVars, reqVars>>

InitNorm ==
  /\ variant = "webhook"
  /\ uid = 0
  /\ auth = "pending"
  /\ now = 1000
  /\ nreq = 0
  /\ InitRemote
  /\ InitRequests
  /\ nsub \in NormSubs
  /\ nout = [fn |-> "none", res |-> Thrown("")]

NextNorm == RunIndexBased \/ RunTableBased

SpecNorm == InitNorm /\ [][NextNorm]_vars

\* ------------------------------------------------------------------------
\* The normalizers applied to two submissions: a and b carry the same special_*
\* entries; b has another email and the same or another products array
\* ------------------------------------------------------------------------
PairSub(q, e) == [q43_myProducts |-> q, q3_email3 |-> e]

PairProducts == { None, Some(<< Product("Hat", 3, 2) >>) }

\* a normalizer that deletes q43_myProducts from the submission it is given
RunIndexPairInPlace ==
  /\ nout.fn = "none"
  /\ nout' = [fn |-> "index", res |-> extractProductDetails(nsub.a),
              res2 |-> extractProductDetails(nsub.b)]
  /\ nsub' = [nsub EXCEPT !.a.q43_myProducts = None]
  /\ UNCHANGED <<procVars, remoteVars, reqVars>>

\* extractProductDetails only reads its argument: both submissions are
\* afterwards what they were
RunIndexPair ==
  /\ nout.fn = "none"
  /\ nout' = [fn |-> "index", res |-> extractProductDetails(nsub.a),
              res2 |-> extractProductDetails(nsub.b)]
  /\ UNCHANGED <<nsub, procVars, remoteVars, reqVars>>

\* a normalizer that takes names and prices from the products array
RunTablePairFromProducts ==
  /\ nout.fn = "none"
  /\ nout' = [fn |-> "table", res |-> extractProductDetails(nsub.a),
              res2 |-> extractProductDetails(nsub.b)]
  /\ UNCHANGED <<nsub, procVars, remoteVars, reqVars>>

RunTablePair ==
  /\ nout.fn = "none"
  /\ nout' = [fn |-> "table", res |-> extractProductDetailsTable(nsub.a),
              res2 |-> extractProductDetailsTable(nsub.b)]
  /\ UNCHANGED <<nsub, procVars, remoteVars, reqVars>>

InitPair ==
  /\ variant = "webhook"
  /\ uid = 0
  /\ auth = "pending"
  /\ now = 1000
  /\ nreq = 0
  /\ InitRemote
  /\ InitRequests
  /\ \/ nsub = [a |-> PairSub(None, None), b |-> PairSub(None, Some("a@x.com"))]
     \/ \E p1 \in NormProducts : \E p2 \in PairProducts \cup {p1} : \E es \in NormEntries :
          nsub = [a |-> PairSub(Q43(p1, es), None),
                  b |-> PairSub(Q43(p2, es), Some("a@x.com"))]
  /\ nout = [fn |-> "none", res |-> Thrown(""), res2 |-> Thrown("")]

NextPair ==
  \/ RunIndexPair
  \/ RunTablePair

SpecPair == InitPair /\ [][NextPair]_vars

\* ------------------------------------------------------------------------
\* The webhook server
\* ------------------------------------------------------------------------
Next ==
  \/ AuthOk
  \/ AuthFail
  \/ \E r \in Slots : \E s \in HandlerSubs : Receive(r, s, FALSE)
  \/ \E r \in Slots : \E c \in pending[r] : \E ok \in BOOLEAN : PartnerSearchReturn(r, c, ok)
  \/ \E r \in Slots : \E c \in pending[r] : \E ok \in BOOLEAN : PartnerCreateReturn(r, c, ok)
  \/ \E r \in Slots : \E c \in pending[r] : \E ok \in BOOLEAN : ProductSearchReturn(r, c, ok)
  \/ \E r \in Slots : \E c \in pending[r] : \E ok \in BOOLEAN : ProductCreateReturn(r, c, ok)
  \/ \E r \in Slots : \E c \in pending[r] : \E ok \in BOOLEAN : ProductCodeReturn(r, c, ok)
  \/ \E r \in Slots : \E c \in pending[r] : \E ok \in BOOLEAN : OrderCreateReturn(r, c, ok)
  \/ \E r \in Slots : \E c \in pending[r] : \E ok \in BOOLEAN : ConfirmReturn(r, c, ok)
  \/ \E r \in Slots : \E c \in pending[r] : \E ok \in BOOLEAN : SessionAuthReturn(r, c, ok)
  \/ \E r \in Slots : \E c \in pending[r] : \E ok \in BOOLEAN : SessionInvoiceReturn(r, c, ok)
  \/ \E r \in Slots : \E c \in pending[r] : \E ok \in BOOLEAN : OrderReadReturn(r, c, ok)
  \/ \E r \in Slots : \E c \in pending[r] : \E ok \in BOOLEAN : InvoiceCreateReturn(r, c, ok)
  \/ \E r \in Slots : \E c \in pending[r] : \E ok \in BOOLEAN : OrderLineReadReturn(r, c, ok)
  \/ \E r \in Slots : \E c \in pending[r] : \E ok \in BOOLEAN : InvoiceWriteReturn(r, c, ok)
  \/ \E r \in Slots : \E c \in pending[r] : \E ok \in BOOLEAN : InvoicePostReturn(r, c, ok)
  \/ \E r \in Slots : \E c \in pending[r] : \E ok \in BOOLEAN : InvoiceReadReturn(r, c, ok)
  \/ \E r \in Slots : \E c \in pending[r] : \E ok, found \in BOOLEAN :
       TemplateSearchReturn(r, c, ok, found)
  \/ \E r \in Slots : \E c \in pending[r] : \E ok \in BOOLEAN : SendMailReturn(r, c, ok)
  \/ \E r \in Slots : \E c \in pending[r] : \E ok \in BOOLEAN : ManualInvoiceReadReturn(r, c, ok)
  \/ \E r \in Slots : \E c \in pending[r] : \E ok \in BOOLEAN : MailCreateReturn(r, c, ok)
  \/ \E r \in Slots : \E c \in pending[r] : \E ok \in BOOLEAN : PartnerReadReturn(r, c, ok)
  \/ \E r \in Slots : \E c \in pending[r] : \E ok \in BOOLEAN : MailWriteReturn(r, c, ok)
  \/ \E r \in Slots : \E c \in pending[r] : \E ok \in BOOLEAN : MailSendReturn(r, c, ok)

Spec == Init /\ [][Next]_vars

\* ------------------------------------------------------------------------
\* The webhook.js server with requests that overlap: a second request may
\* arrive while the first awaits a remote call
\* ------------------------------------------------------------------------
OverlapSubs == { Submission(TRUE, TRUE, Some(m), TRUE, GoodQ43) : m \in Emails }

InitOverlap ==
  /\ Init
  /\ variant = "webhook"

NextOverlap ==
  \/ AuthOk
  \/ AuthFail
  \/ \E r \in Slots : \E s \in OverlapSubs : Receive(r, s, TRUE)
  \/ \E r \in Slots : \E c \in pending[r] : \E ok \in BOOLEAN : PartnerSearchReturn(r, c, ok)
  \/ \E r \in Slots : \E c \in pending[r] : \E ok \in BOOLEAN : PartnerCreateReturn(r, c, ok)
  \/ \E r \in Slots : \E c \in pending[r] : \E ok \in BOOLEAN : ProductSearchReturn(r, c, ok)
  \/ \E r \in Slots : \E c \in pending[r] : \E ok \in BOOLEAN : ProductCreateReturn(r, c, ok)
  \/ \E r \in Slots : \E c \in pending[r] : \E ok \in BOOLEAN : OrderCreateReturn(r, c, ok)
  \/ \E r \in Slots : \E c \in pending[r] : \E ok \in BOOLEAN : ConfirmReturn(r, c, ok)

SpecOverlap == InitOverlap /\ [][NextOverlap]_vars

\* ------------------------------------------------------------------------
\* Vocabulary of the properties
\* ------------------------------------------------------------------------
IsCall(e) == e.ev = "call"
IsRet(e) == e.ev = "ret"

\* the remote calls request r has issued so far, in order
CallsOf(r) == SelectSeq(log[r], IsCall)

\* the returns request r has seen so far, in order
RetsOf(r) == SelectSeq(log[r], IsRet)

Last(q) == q[Len(q)]

PartnerOps == {"partner.search", "partner.create"}
ProductOps == {"product.search", "product.create"}

\* customer, products, sale.order create, action_confirm
Phase(e) ==
  CASE e.op \in PartnerOps -> 1
    [] e.op \in ProductOps -> 2
    [] e.op = "order.create" -> 3
    [] e.op = "order.confirm" -> 4
    [] OTHER -> 5

Responded(r) == req[r].response.status # 0

\* the handler's synchronous prefix threw: the payload cannot be processed
Malformed(r) == req[r].sub # None /\ ~HandlerPrefix(variant, req[r].sub[1], 0).ok

SomeCallFailed(r) == \E i \in 1..Len(log[r]) : IsRet(log[r][i]) /\ ~log[r][i].ok

\* ------------------------------------------------------------------------
\* C1
\* ------------------------------------------------------------------------
\* C1 (as stated): in every variant at most one remote call of a request is
\* in flight at any moment.
C1_EveryVariantOneInFlight ==
  \A r \in Slots : Cardinality(pending[r]) <= 1

\* C1 (amended): the for-await handlers (webhook.js, part_001, part_004,
\* part_000, part_002) have at most one remote call of a request in flight;
\* in the Promise.all handlers (part_003, server.js inline and table-keyed)
\* only the product calls of a request are in flight together, at most one per
\* product, and every other call of the request is in flight alone.
C1_OneInFlightExceptPromiseAll ==
  \A r \in Slots :
    /\ variant \notin Parallel => Cardinality(pending[r]) <= 1
    /\ variant \in Parallel =>
         /\ \A c \in pending[r] : c.op \notin ProductOps => pending[r] = {c}
         /\ \A c, d \in pending[r] : c.id = d.id => c = d
         /\ Cardinality(pending[r]) > 1 => Cardinality(pending[r]) <= Len(req[r].work)

\* C1 witness: the webhook.js handler has one call in flight after two
\* earlier calls of the request returned.
C1_Witness ==
  \E r \in Slots : /\ variant = "webhook"
                   /\ Cardinality(pending[r]) = 1
                   /\ Len(RetsOf(r)) >= 2

\* ------------------------------------------------------------------------
\* C2
\* ------------------------------------------------------------------------
\* C2: in the webhook.js handler the calls go customer, each product in order,
\* sale.order create, action_confirm; create is issued with the customer id and
\* every product id obtained, confirm with the order id create returned, and
\* 200 is sent only after confirm returned without error.
C2_WebhookCallOrder ==
  \A r \in Slots : variant = "webhook" =>
    LET calls == CallsOf(r)
        rq == req[r]
    IN /\ \A i, j \in 1..Len(calls) : i < j =>
            /\ Phase(calls[i]) <= Phase(calls[j])
            /\ Phase(calls[i]) = 2 /\ Phase(calls[j]) = 2 => calls[i].id <= calls[j].id
            /\ calls[i].op = calls[j].op => calls[i].id < calls[j].id
            /\ calls[j].op = "partner.search" => FALSE
            /\ calls[i].op = "product.create" /\ calls[i].id = calls[j].id => FALSE
       /\ \A c \in pending[r] : c.op = "order.create" =>
            /\ rq.customerId # 0 /\ c.num = rq.customerId
            /\ Len(c.lines) = Len(rq.mapped)
            /\ \A i \in 1..Len(c.lines) : c.lines[i].product_id # 0
            /\ \A i \in 1..Len(rq.mapped) :
                 \E k \in 1..Len(calls) : calls[k].op = "product.search" /\ calls[k].id = i
       /\ \A c \in pending[r] : c.op = "order.confirm" =>
            /\ rq.saleOrderId # 0 /\ c.num = rq.saleOrderId
            /\ \E k \in 1..Len(log[r]) :
                 IsRet(log[r][k]) /\ log[r][k].op = "order.create" /\ log[r][k].ok
       /\ rq.response.status = 200 =>
            /\ pending[r] = {}
            /\ Last(log[r]) = [ev |-> "ret", op |-> "order.confirm", id |-> 0, ok |-> TRUE]
            /\ orders[rq.saleOrderId].state = "sale"

\* C2 witness: the webhook.js handler answered 200 for an order of two products.
C2_Witness ==
  \E r \in Slots : /\ variant = "webhook"
                   /\ req[r].response.status = 200
                   /\ Len(req[r].mapped) = 2

\* ------------------------------------------------------------------------
\* C3
\* ------------------------------------------------------------------------
\* C3 (as stated): the webhook.js handler answers 400 to a malformed payload,
\* 502 to a failed remote call and 200 to a fully processed order.
C3_StatusMapping400_502 ==
  \A r \in Slots : (variant = "webhook" /\ Responded(r)) =>
    req[r].response.status =
      (IF Malformed(r) THEN 400 ELSE IF SomeCallFailed(r) THEN 502 ELSE 200)

\* C3 (amended): the webhook.js handler answers 500 to a payload it cannot
\* process (rawRequest not JSON; name, contact number or products missing; no
\* product with a special entry) and to a failed remote call, and 200 to a
\* fully processed order; no variant ever answers 400 or 502.
C3_StatusMapping500 ==
  \A r \in Slots :
    /\ req[r].response.status \in {0, 200, 500}
    /\ (variant = "webhook" /\ Responded(r)) =>
         req[r].response.status =
           (IF Malformed(r) \/ SomeCallFailed(r) THEN 500 ELSE 200)
    /\ (variant = "webhook" /\ req[r].pc = "done") => Responded(r)

\* C3 witness: the webhook.js handler has answered a request whose remote
\* call failed, and one whose payload it could not process.
C3_Witness ==
  \E r \in Slots : /\ variant = "webhook"
                   /\ Responded(r)
                   /\ SomeCallFailed(r)
                   /\ ~Malformed(r)

\* ------------------------------------------------------------------------
\* C4
\* ------------------------------------------------------------------------
\* C4: with requests handled one after the other, createOrFindCustomer
\* (webhook.js) and createSaleOrder (part_000) leave at most one partner per
\* customer email, and issue no res.partner create for an email that already
\* names a partner.
C4_OnePartnerPerEmail ==
  variant \in {"webhook", "session0"} =>
    /\ \A i, j \in 1..Len(partners) :
         (partners[i] # None /\ partners[i] = partners[j]) => i = j
    /\ \A r \in Slots : \A c \in pending[r] :
         (c.op = "partner.create" /\ c.arg # None) => Len(PartnerIds(c.arg)) = 0

\* ------------------------------------------------------------------------
\* C5
\* ------------------------------------------------------------------------
NoEmail(e) == e = None \/ e[1] = ""

\* C5: no variant sends an absent or empty email in the customer search or
\* create; when the submission carries none, the email sent is the
\* placeholder <milliseconds>@noemail.com.
C5_PlaceholderEmail ==
  \A r \in Slots : \A c \in pending[r] :
    c.op \in PartnerOps =>
      /\ ~NoEmail(c.arg)
      /\ NoEmail(req[r].sub[1].q3_email3) =>
           \E t \in 1000..now : c.arg = Some(Placeholder(t))

\* ------------------------------------------------------------------------
\* C6
\* ------------------------------------------------------------------------
LookupOps == ProductOps \cup {"product.bycode"}

\* a call of request r with one of the ops returned a result for chain id
ReturnedOk(r, ops, id) ==
  \E k \in 1..Len(log[r]) :
    /\ IsRet(log[r][k]) /\ log[r][k].ok
    /\ log[r][k].op \in ops /\ log[r][k].id = id

\* C6: in the sale order a request creates, partner_id is the id a customer
\* call of the request returned and every line's product_id the id a product
\* call of the request returned: an identifier of the remote system, never
\* null and never a value of the form.
C6_IdsFromRemote ==
  \A r \in Slots : \A c \in pending[r] :
    c.op = "order.create" =>
      /\ ReturnedOk(r, PartnerOps, 0)
      /\ c.num \in 1..Len(partners)
      /\ \A i \in 1..Len(c.lines) :
           /\ ReturnedOk(r, LookupOps, i)
           /\ c.lines[i].product_id \in 1..Len(products)

\* ------------------------------------------------------------------------
\* C7
\* ------------------------------------------------------------------------
\* the display name the claim describes for a normalized product
DisplayName(m) ==
  LET opts == m.product_options
  IN IF Len(opts) > 1
     THEN m.product_name \o " (" \o Join(SubSeq(opts, 2, Len(opts)), ", ") \o ")"
     ELSE m.product_name

\* C7: in the webhook.js handler the name of every product looked up or
\* created and of every order line is the product name followed by the
\* options after the first, joined with ", " in parentheses, or the bare name
\* when there is none; the Quantity option is not part of it.
C7_DisplayName ==
  \A r \in Slots : variant = "webhook" =>
    LET rq == req[r]
        Named(i, name) ==
          /\ name = DisplayName(rq.mapped[i])
          /\ ~Contains(name, "Quantity")
          /\ Len(rq.mapped[i].product_options) > 0 =>
               StartsWith(rq.mapped[i].product_options[1], "Quantity: ")
    IN /\ \A c \in pending[r] : c.op \in ProductOps => Named(c.id, c.name)
       /\ \A i \in 1..Len(rq.lines) : Named(i, rq.lines[i].name)
       /\ \A c \in pending[r] : c.op = "order.create" =>
            \A i \in 1..Len(c.lines) : Named(i, c.lines[i].name)
       /\ rq.saleOrderId # 0 =>
            \A i \in 1..Len(rq.mapped) :
              Named(i, orders[rq.saleOrderId].order_line[i].name)

\* C7 witness: an order of the webhook.js handler was created with a line
\* named with options and a line named with the bare product name.
C7_Witness ==
  \E r \in Slots :
    /\ variant = "webhook"
    /\ req[r].saleOrderId # 0
    /\ \E i, j \in 1..Len(req[r].lines) :
         /\ Len(req[r].mapped[i].product_options) > 1
         /\ req[r].lines[i].name # req[r].mapped[i].product_name
         /\ req[r].lines[j].name = req[r].mapped[j].product_name

\* ------------------------------------------------------------------------
\* C8
\* ------------------------------------------------------------------------
\* C8: the table-based extractProductDetails returns no record for a mapped
\* special_* entry whose item_0 is "0".
C8_ZeroQuantityOmitted ==
  (nout.fn = "table" /\ nout.res.ok) =>
    LET entries == nsub.q43_myProducts[1].entries
    IN \A i \in 1..Len(entries) :
         (/\ StartsWith(entries[i].key, "special_")
          /\ Get(entries[i].value, "item_0") = Some(StrVal("0"))) =>
           \A k \in 1..Len(nout.res.val) : nout.res.val[k].product_id # entries[i].key

\* ------------------------------------------------------------------------
\* C9
\* ------------------------------------------------------------------------
EmailStepBegun(r) ==
  \E k \in 1..Len(log[r]) : IsCall(log[r][k]) /\ log[r][k].op = "template.search"

\* sendInvoiceByEmail resolved: send_mail or mail.mail send returned a result
EmailStepSucceeded(r) ==
  /\ Len(log[r]) > 0
  /\ IsRet(Last(log[r]))
  /\ Last(log[r]).op \in {"template.send_mail", "mail.send"}
  /\ Last(log[r]).ok

\* C9: in the invoice variant (part_001) a request that reached the email
\* step is answered 200, with emailSent true exactly when sendInvoiceByEmail
\* succeeded; a request that failed before the email step is answered 500.
C9_EmailFailureTolerated ==
  \A r \in Slots : (variant = "invoice" /\ Responded(r)) =>
    IF EmailStepBegun(r)
    THEN /\ req[r].response.status = 200
         /\ req[r].response.emailSent <=> EmailStepSucceeded(r)
    ELSE /\ req[r].response.status = 500
         /\ ~req[r].response.emailSent
         /\ Malformed(r) \/ SomeCallFailed(r)

\* C9 witness: the invoice variant answered 200 with emailSent false after a
\* call of the email step failed.
C9_Witness ==
  \E r \in Slots :
    /\ variant = "invoice"
    /\ req[r].response.status = 200
    /\ ~req[r].response.emailSent
    /\ EmailStepBegun(r)
    /\ SomeCallFailed(r)

\* ------------------------------------------------------------------------
\* C10
\* ------------------------------------------------------------------------
\* C10: uid is assigned only by the callback of the startup authentication;
\* no step of a request handler changes uid or any other module-level state.
C10_OnlyAuthWritesUid ==
  [][/\ uid' # uid => (auth = "pending" /\ auth' = "ok" /\ UNCHANGED reqVars)
     /\ reqVars' # reqVars => UNCHANGED <<uid, auth, variant>>]_vars

\* C10 witness: after the startup authentication the webhook.js handler has
\* answered two requests and uid is still the uid of the login.
C10_Witness ==
  /\ variant = "webhook"
  /\ auth = "ok"
  /\ uid = UidOfLogin
  /\ nreq = MaxRequests
  /\ \E r \in Slots : req[r].response.status = 200

OrderLineView(recs) ==
  [i \in 1..Len(recs) |->
     [name |-> recs[i].product_name, quantity |-> recs[i].quantity,
      unit_price |-> recs[i].unit_price, options |-> recs[i].product_options]]

\* both normalizers return for s, with different (name, quantity, price, options)
Disagree(s) ==
  LET byIndex == extractProductDetails(s)
      byTable == extractProductDetailsTable(s)
  IN /\ byIndex.ok
     /\ byTable.ok
     /\ OrderLineView(byIndex.val) # OrderLineView(byTable.val)

\* one T-Shirt ordered 7 times, with the special_1001 entry of the /test sample
DisagreeingSubmission ==
  [q43_myProducts |->
     Q43(Some(<< Product("T-Shirt", 1, 7) >>),
         << KV("special_1001",
               << Item("item_0", "2"), Item("item_1", "Green"), Item("item_2", "XS") >>) >>)]

\* C12: there is a submission (one T-Shirt with the special_1001 entry of the
\* /test sample) for which the index-based and the table-based
\* extractProductDetails both return and their lists of (name, quantity, unit
\* price, options) records differ.
C12_NormalizersDisagree ==
  (nout.fn # "none" /\ nsub = DisagreeingSubmission) =>
    /\ nout.res.ok
    /\ Disagree(nsub)

\* C12 witness: the index-based normalizer has returned for that submission,
\* for which the table-based one returns another list of the same length.
C12_Witness ==
  /\ nout.fn = "index"
  /\ nsub = DisagreeingSubmission
  /\ nout.res.ok
  /\ extractProductDetailsTable(nsub).ok
  /\ Len(nout.res.val) = Len(extractProductDetailsTable(nsub).val)
  /\ OrderLineView(nout.res.val) # OrderLineView(extractProductDetailsTable(nsub).val)

\* ------------------------------------------------------------------------
\* C13
\* ------------------------------------------------------------------------
\* C13: however two overlapping requests of the webhook.js handler with the
\* same email interleave, at most one res.partner create is issued for that
\* email, no two partners share it, and sale orders of the same customer email
\* carry the same partner_id.
C13_OneCreateUnderOverlap ==
  /\ \A r1, r2 \in Slots : \A c1 \in pending[r1] : \A c2 \in pending[r2] :
       (/\ r1 # r2
        /\ c1.op = "partner.create"
        /\ c2.op = "partner.create") => c1.arg # c2.arg
  /\ \A r \in Slots : \A c \in pending[r] :
       c.op = "partner.create" => Len(PartnerIds(c.arg)) = 0
  /\ \A o1, o2 \in 1..Len(orders) :
       partners[orders[o1].partner_id] = partners[orders[o2].partner_id] =>
         orders[o1].partner_id = orders[o2].partner_id

\* ------------------------------------------------------------------------
\* C14
\* ------------------------------------------------------------------------
\* the key the claim pairs with the product at 1-based position i
PairedKey(i) == "special_100" \o ToString(i)

HasEntry(q, i) == \E k \in 1..Len(q.entries) : q.entries[k].key = PairedKey(i)

\* C14: the index-based extractProductDetails throws when q43_myProducts is
\* missing or products is not a non-empty array; otherwise the product at
\* position i (0-based) yields exactly one record when the entry
\* special_100<i+1> exists (position 9 pairs with special_10010), with that
\* key as product_id and the product's name, unit price and quantity, and no
\* record when it does not; the records keep the order of the products.
C14_IndexPairing ==
  nout.fn = "index" =>
    LET q43 == nsub.q43_myProducts
    IN IF q43 = None \/ q43[1].products = None \/ q43[1].products[1] = <<>>
       THEN ~nout.res.ok
       ELSE LET P == q43[1].products[1]
                val == nout.res.val
            IN /\ nout.res.ok
               /\ SpecialKey(9) = "special_10010"
               /\ \A i \in 1..Len(P) :
                    LET hits == { k \in 1..Len(val) : val[k].product_id = PairedKey(i) }
                    IN IF HasEntry(q43[1], i)
                       THEN /\ Cardinality(hits) = 1
                            /\ \A k \in hits :
                                 /\ val[k].product_name = P[i].productName
                                 /\ val[k].unit_price = P[i].unitPrice
                                 /\ val[k].quantity = P[i].quantity
                       ELSE hits = {}
               /\ \A k \in 1..Len(val) :
                    \E i \in 1..Len(P) : val[k].product_id = PairedKey(i)
               /\ \A k1, k2 \in 1..Len(val) : k1 < k2 =>
                    \E i1, i2 \in 1..Len(P) :
                      /\ i1 < i2
                      /\ val[k1].product_id = PairedKey(i1)
                      /\ val[k2].product_id = PairedKey(i2)

\* C14 witness: of two products only the second has its entry, and the one
\* record returned is the second product's.
C14_Witness ==
  /\ nout.fn = "index"
  /\ nout.res.ok
  /\ Len(nsub.q43_myProducts[1].products[1]) = 2
  /\ ~HasEntry(nsub.q43_myProducts[1], 1)
  /\ Len(nout.res.val) = 1
  /\ nout.res.val[1].product_id = "special_1002"
  /\ nout.res.val[1].product_name = nsub.q43_myProducts[1].products[1][2].productName

\* ------------------------------------------------------------------------
\* C15
\* ------------------------------------------------------------------------
\* the options the claim gives the product at 0-based position pos whose
\* special entry is details
PositionalOptions(product, pos, details) ==
  LET n == Len(details)
      V(j) == ToStr(details[j].value)
  IN (IF n >= 1 THEN << "Quantity: " \o V(1) >> ELSE <<>>)
     \o (IF n >= 2
         THEN IF details[2].key = "item_1" /\ pos \in {0, 1}
              THEN << "Color: " \o V(2) >>
              ELSE << "Size: " \o V(2) >>
         ELSE <<>>)
     \o (IF n >= 3 /\ details[3].key = "item_2"
         THEN << product.productName \o " Size: " \o V(3) >>
         ELSE <<>>)

\* C15: every record of the index-based extractProductDetails has the options
\* its special entry's first three keys give by position ('Quantity: v';
\* 'Color: v' for item_1 at product position 0 or 1, else 'Size: v';
\* '<productName> Size: v' for item_2 only), at most three of them, the first
\* being the Quantity option.
C15_OptionsByPosition ==
  (nout.fn = "index" /\ nout.res.ok) =>
    LET q == nsub.q43_myProducts[1]
        P == q.products[1]
        val == nout.res.val
    IN \A k \in 1..Len(val) :
         \E i \in 1..Len(P) :
           /\ val[k].product_id = PairedKey(i)
           /\ val[k].product_options =
                PositionalOptions(P[i], i - 1, Get(q.entries, PairedKey(i))[1])
           /\ Len(val[k].product_options) <= 3
           /\ Len(val[k].product_options) > 0 =>
                StartsWith(val[k].product_options[1], "Quantity: ")

\* C15 witness: the third product's entry has item_1 as its second key and
\* four keys in all; its record has the options Quantity, Size, <name> Size.
C15_Witness ==
  /\ nout.fn = "index"
  /\ nout.res.ok
  /\ \E k \in 1..Len(nout.res.val) :
       LET details == Get(nsub.q43_myProducts[1].entries, "special_1003")
       IN /\ nout.res.val[k].product_id = "special_1003"
          /\ Len(details[1]) = 4
          /\ details[1][2].key = "item_1"
          /\ Len(nout.res.val[k].product_options) = 3
          /\ StartsWith(nout.res.val[k].product_options[2], "Size: ")

\* ------------------------------------------------------------------------
\* C16
\* ------------------------------------------------------------------------
\* C16: in the table-keyed handler of server.js every entry special_1001,
\* special_1002 or special_1003 present in q43_myProducts gives one order line
\* with the table's name and price and the quantity parseInt(item_0), and
\* nothing else gives an order line.
C16_TableKeyedLines ==
  \A r \in Slots :
    (variant = "tablekeyed" /\ req[r].sub # None /\ ~Malformed(r)) =>
      LET entries == req[r].sub[1].q43_myProducts[1].entries
          work == req[r].work
          present == { k \in 1..Len(productMapping) :
                         Get(entries, productMapping[k].key) # None }
      IN /\ Len(work) = Cardinality(present)
         /\ \A k \in present :
              \E i \in 1..Len(work) :
                /\ work[i].name = productMapping[k].value.name
                /\ work[i].price = productMapping[k].value.price
                /\ work[i].qty =
                     ParseIntOpt(Get(Get(entries, productMapping[k].key)[1], "item_0"))

\* ------------------------------------------------------------------------
\* C17
\* ------------------------------------------------------------------------
TablePrice(key) == Get(productMapping, key)[1].price

NegativeQuantity(entry) ==
  LET n == ParseIntOpt(Get(entry.value, "item_0"))
  IN n # None /\ n[1] < 0

\* C17: the table-based extractProductDetails either throws or returns a
\* non-empty list; every record has quantity >= 1 and subTotal = quantity times
\* the table price of its key; an entry whose parsed item_0 is negative has no
\* record.
C17_TableQuantities ==
  nout.fn = "table" =>
    IF nout.res.ok
    THEN LET val == nout.res.val
             entries == nsub.q43_myProducts[1].entries
         IN /\ Len(val) >= 1
            /\ \A k \in 1..Len(val) :
                 /\ val[k].quantity >= 1
                 /\ val[k].subTotal = val[k].quantity * TablePrice(val[k].product_id)
            /\ \A i \in 1..Len(entries) :
                 NegativeQuantity(entries[i]) =>
                   \A k \in 1..Len(val) : val[k].product_id # entries[i].key
    ELSE nout.res.val = <<>>

\* C17 witness: a submission with an entry of negative item_0 and another
\* entry was normalized to the one record of the other entry.
C17_Witness ==
  /\ nout.fn = "table"
  /\ nout.res.ok
  /\ Len(nout.res.val) = 1
  /\ Len(nsub.q43_myProducts[1].entries) = 2
  /\ \E i \in 1..2 : NegativeQuantity(nsub.q43_myProducts[1].entries[i])

\* ------------------------------------------------------------------------
\* C18
\* ------------------------------------------------------------------------
\* C18: for two submissions with the same special_* entries, whatever their
\* products arrays, the table-based extractProductDetails gives the same
\* outcome, and every record's product_name and unit_price are those of the
\* table for its key (so product_name, unit_price and subTotal agree record
\* by record).
C18_TableNamesFromKeys ==
  nout.fn = "table" =>
    /\ nout.res.ok = nout.res2.ok
    /\ Len(nout.res.val) = Len(nout.res2.val)
    /\ \A k \in 1..Len(nout.res.val) :
         LET x == nout.res.val[k]
             y == nout.res2.val[k]
         IN /\ x.product_id = y.product_id
            /\ x.product_name = y.product_name
            /\ x.unit_price = y.unit_price
            /\ x.subTotal = y.subTotal
            /\ x.product_name = Get(productMapping, x.product_id)[1].name
            /\ x.unit_price = Get(productMapping, x.product_id)[1].price

\* C18 witness: two submissions with different products arrays and the same
\* entries were normalized to two records each.
C18_Witness ==
  /\ nout.fn = "table"
  /\ nout.res.ok
  /\ Len(nout.res.val) = 2
  /\ nsub.a.q43_myProducts[1].products # nsub.b.q43_myProducts[1].products
  /\ nsub.a.q43_myProducts[1].products # None
  /\ nsub.b.q43_myProducts[1].products # None

\* ------------------------------------------------------------------------
\* C19
\* ------------------------------------------------------------------------
\* the submission of request r parsed, and its normalization threw or gave
\* no product record (webhook.js 198 and 207, part_004 960 and 969,
\* part_004 154-197)
NormalizationFails(r) ==
  /\ req[r].sub # None
  /\ req[r].sub[1].json
  /\ LET s == req[r].sub[1]
         Empty(res) == ~res.ok \/ Len(res.val) = 0
     IN CASE variant = "webhook" -> Empty(extractProductDetails(s))
          [] variant = "table4b" -> Empty(extractProductDetailsTable(s))
          [] variant = "table4a" ->
               \/ s.q43_myProducts = None
               \/ Len(Table4aLines(s.q43_myProducts[1].entries)) = 0
          [] OTHER -> FALSE

\* C19: in webhook.js and in the two table-based handlers of part_004, a
\* request whose normalization throws or yields no record is answered with
\* the error response (500) and has issued no remote call: nothing is in
\* flight for it and nothing was ever called for it.
C19_NoCallAfterFailedNormalization ==
  \A r \in Slots :
    NormalizationFails(r) =>
      /\ req[r].pc = "done"
      /\ req[r].response.status = 500
      /\ pending[r] = {}
      /\ log[r] = <<>>

\* C19 witness: a request with a customer name and a contact number, whose
\* products gave no record, has been answered.
C19_Witness ==
  \E r \in Slots :
    /\ NormalizationFails(r)
    /\ req[r].sub[1].q2_fullName2
    /\ req[r].sub[1].q5_contactNumber
    /\ variant = "table4b"
    /\ Responded(r)

\* ------------------------------------------------------------------------
\* C20
\* ------------------------------------------------------------------------
\* C20: no handler variant ever has a sale.order create call in flight whose
\* order_line list is empty.
C20_NoEmptyOrder ==
  \A r \in Slots :
    \A c \in pending[r] : c.op = "order.create" => Len(c.lines) > 0

\* ------------------------------------------------------------------------
\* C21
\* ------------------------------------------------------------------------
\* the events of request r about the product promise i
ProductEvents(r, i, ev, op) ==
  { k \in 1..Len(log[r]) :
      log[r][k].ev = ev /\ log[r][k].op = op /\ log[r][k].id = i }

\* the promise of product i of request r resolved: its search returned a
\* product (no create was issued), or its create returned an id
ProductResolved(r, i) ==
  \/ /\ \E k \in ProductEvents(r, i, "ret", "product.search") : log[r][k].ok
     /\ ProductEvents(r, i, "call", "product.create") = {}
  \/ \E k \in ProductEvents(r, i, "ret", "product.create") : log[r][k].ok

\* the promise of product i of request r rejected
ProductRejectedIn(r, i) ==
  \E k \in ProductEvents(r, i, "ret", "product.search") \cup
           ProductEvents(r, i, "ret", "product.create") : ~log[r][k].ok

\* each product promise made one search and at most one create, each call
\* returned at most once, the promise did not both resolve and reject, and
\* the handler took one order line from each resolved promise
SettlesOnce(r) ==
  /\ \A i \in 1..Len(req[r].work) :
       /\ Cardinality(ProductEvents(r, i, "call", "product.search")) <= 1
       /\ Cardinality(ProductEvents(r, i, "call", "product.create")) <= 1
       /\ Cardinality(ProductEvents(r, i, "ret", "product.search")) <=
            Cardinality(ProductEvents(r, i, "call", "product.search"))
       /\ Cardinality(ProductEvents(r, i, "ret", "product.create")) <=
            Cardinality(ProductEvents(r, i, "call", "product.create"))
       /\ ~(ProductResolved(r, i) /\ ProductRejectedIn(r, i))
  /\ Len(req[r].lines) =
       Cardinality({ i \in 1..Len(req[r].work) : ProductResolved(r, i) })

\* the step in which the search call c of request r returned
SearchReturned(r, c) ==
  LET ret == log'[r][Len(log[r]) + 1]
      result == ProductByName(c.name)
      created == { d \in pending'[r] : d.op = "product.create" /\ d.id = c.id }
  IN /\ products' = products
     /\ (created # {}) <=> (ret.ok /\ Len(result) = 0)
     /\ \A d \in created : d.name = c.name /\ d.num = c.num
     /\ (ret.ok /\ Len(result) > 0) =>
          /\ Len(req'[r].lines) = Len(req[r].lines) + 1
          /\ Last(req'[r].lines).product_id = result[1]
     /\ ~ret.ok =>
          /\ pending'[r] = pending[r] \ {c}
          /\ req'[r].pc = "done"
          /\ req'[r].response.status = 500

\* the step in which the create call c of request r returned
CreateReturned(r, c) ==
  LET ret == log'[r][Len(log[r]) + 1]
  IN /\ ret.ok =>
          /\ products' = Append(products, [name |-> c.name, price |-> c.num, code |-> None])
          /\ Len(req'[r].lines) = Len(req[r].lines) + 1
          /\ Last(req'[r].lines).product_id = Len(products) + 1
     /\ ~ret.ok =>
          /\ products' = products
          /\ pending'[r] = pending[r] \ {c}
          /\ req'[r].pc = "done"
          /\ req'[r].response.status = 500

\* C21: in webhook.js, findOrCreateProduct issues product.product create if
\* and only if its search returned an empty result; when the search returns a
\* product it resolves with that product's id and leaves every product record
\* as it was; when the search or the create returns an error it rejects and
\* issues no further call; its promise settles once.
C21_FindOrCreateProduct ==
  [][variant = "webhook" =>
       \A r \in Slots :
         /\ \A c \in pending[r] \ pending'[r] :
              /\ c.op = "product.search" => SearchReturned(r, c)
              /\ c.op = "product.create" => CreateReturned(r, c)
         /\ SettlesOnce(r)']_vars

\* C21 witness: a request of webhook.js was answered with success after the
\* search of its product returned an existing product whose list price is not
\* the submitted one, and no create was issued for it.
C21_Witness ==
  /\ variant = "webhook"
  /\ \E r \in Slots :
       /\ req[r].response.status = 200
       /\ Len(req[r].lines) = 1
       /\ ProductResolved(r, 1)
       /\ ProductEvents(r, 1, "call", "product.create") = {}
       /\ products[req[r].lines[1].product_id].price # req[r].lines[1].price_unit

\* ------------------------------------------------------------------------
\* C22
\* ------------------------------------------------------------------------
\* the four remote calls of createInvoiceFromSaleOrder, in the order of the code
InvoiceSteps == << "order.read", "invoice.create", "orderline.read", "invoice.write" >>

IsInvoiceStep(e) == \E k \in 1..Len(InvoiceSteps) : e.op = InvoiceSteps[k]

IsInvoiceStepCall(e) == IsCall(e) /\ IsInvoiceStep(e)

\* the call whose successful return lets the call op be issued
StepBefore(op) ==
  CASE op = "order.read" -> "order.confirm"
    [] op = "invoice.create" -> "order.read"
    [] op = "orderline.read" -> "invoice.create"
    [] op = "invoice.write" -> "orderline.read"
    [] op = "invoice.post" -> "invoice.write"
    [] OTHER -> ""

\* the invoice lines are the order lines of sale order so, one for one
LinesOfOrder(lines, so) ==
  /\ Len(lines) = Len(orders[so].order_line)
  /\ \A i \in 1..Len(lines) :
       /\ lines[i].product_id = orders[so].order_line[i].product_id
       /\ lines[i].name = orders[so].order_line[i].name
       /\ lines[i].quantity = orders[so].order_line[i].product_uom_qty
       /\ lines[i].price_unit = orders[so].order_line[i].price_unit

\* C22: in part_001, createInvoiceFromSaleOrder makes its calls in the order
\* sale.order read, account.move create (with no lines), sale.order.line
\* read, account.move write (one invoice line per order line with the same
\* product, name, quantity and unit price), each only after the one before
\* returned without error; the handler goes on with the invoice id
\* (postInvoice) only after the write returned without error; an error of
\* any of the four calls ends the request with the error response and
\* nothing is issued after it.
C22_InvoiceFromSaleOrder ==
  variant = "invoice" =>
    \A r \in Slots :
      LET calls == SelectSeq(log[r], IsInvoiceStepCall)
      IN /\ Len(calls) <= Len(InvoiceSteps)
         /\ \A k \in 1..Len(calls) : calls[k].op = InvoiceSteps[k]
         /\ \A k \in 1..Len(log[r]) :
              LET e == log[r][k]
              IN /\ (IsCall(e) /\ (IsInvoiceStep(e) \/ e.op = "invoice.post")) =>
                      /\ k > 1
                      /\ IsRet(log[r][k - 1])
                      /\ log[r][k - 1].ok
                      /\ log[r][k - 1].op = StepBefore(e.op)
                 /\ (IsRet(e) /\ IsInvoiceStep(e) /\ ~e.ok) =>
                      /\ k = Len(log[r])
                      /\ pending[r] = {}
                      /\ req[r].pc = "done"
                      /\ req[r].response.status = 500
         /\ \A c \in pending[r] :
              /\ c.op = "order.read" => c.num = req[r].saleOrderId
              /\ c.op = "invoice.create" =>
                   /\ c.lines = <<>>
                   /\ c.num = orders[req[r].saleOrderId].partner_id
              /\ c.op = "orderline.read" =>
                   /\ c.num = req[r].saleOrderId
                   /\ invoices[req[r].invoiceId].lines = <<>>
              /\ c.op = "invoice.write" =>
                   /\ c.num = req[r].invoiceId
                   /\ LinesOfOrder(c.lines, req[r].saleOrderId)
              /\ c.op = "invoice.post" =>
                   /\ c.num = req[r].invoiceId
                   /\ invoices[c.num].partner_id = orders[req[r].saleOrderId].partner_id
                   /\ LinesOfOrder(invoices[c.num].lines, req[r].saleOrderId)

\* C22 witness: the four calls returned without error and postInvoice is in
\* flight for an invoice that has a line.
C22_Witness ==
  /\ variant = "invoice"
  /\ \E r \in Slots :
       /\ Len(SelectSeq(log[r], IsInvoiceStepCall)) = 4
       /\ \E c \in pending[r] :
            /\ c.op = "invoice.post"
            /\ Len(invoices[c.num].lines) > 0

====
